---- MODULE Spec2Model ----
(***************************************************************************)
(* A model of the hcipy wavefront-propagation sources:                     *)
(*   hcipy/propagation/angular_spectrum.py  AngularSpectrumPropagator      *)
(*   hcipy/fourier/naive_fourier_transform.py  NaiveFourierTransform       *)
(*   hcipy/optics/polarization.py  field_kron, Jones-matrix elements       *)
(*                                                                         *)
(* Arithmetic.  Lengths (grid spacing, wavelength, distance) are integers. *)
(* Angles are counted in units of 1/TwoPi of a turn, so that the number    *)
(* 2*pi of the sources is the integer TwoPi, and spatial frequencies in    *)
(* angle units per length.  A complex value that the sources obtain from   *)
(* np.exp is kept in exponent form: a value is a finite sum of terms       *)
(* exp(re + i*im) over a common integer denominator, re being the          *)
(* log-magnitude and im the phase (modulo TwoPi).  Products, conjugates    *)
(* and means of such values are exact in this form.                        *)
(***************************************************************************)
EXTENDS Integers, Sequences, FiniteSets, TLC

VARIABLES
  \* AngularSpectrumPropagator: the instance, the heap of field arrays, the
  \* wavefronts, the log of forward / backward calls, the error raised
  propagator, arrays, wavefronts, calls, raised,
  \* NaiveFourierTransform: the instance, the number of times a dense matrix
  \* was built, the number of forward calls, the last result
  nft, matrix_builds, nft_calls, nft_result,
  \* field_kron: the last call, its operands and its outcome
  kron_call,
  \* Jones-matrix optics: the elements and the wavefronts
  elements, beams,
  \* ModeBasis: the basis (a list of modes) and the last basis that its
  \* orthogonalized property returned
  mode_basis, orthogonal_basis

asp_vars == <<propagator, arrays, wavefronts, calls, raised>>

nft_vars == <<nft, matrix_builds, nft_calls, nft_result>>

kron_vars == <<kron_call>>

pol_vars == <<elements, beams>>

mb_vars == <<mode_basis, orthogonal_basis>>

vars == <<propagator, arrays, wavefronts, calls, raised, nft, matrix_builds, nft_calls,
          nft_result, kron_call, elements, beams, mode_basis, orthogonal_basis>>

(***************************************************************************)
(* Bounds of the model.                                                    *)
(***************************************************************************)
MaxDim == 3
MaxDelta == 2
MaxWavelength == 2
MaxDistance == 2
MaxOversampling == 2
MaxCalls == 2

(***************************************************************************)
(* Program constants.                                                      *)
(***************************************************************************)
\* 2 * np.pi, in angle units (angular_spectrum.py line 46)
TwoPi == 32
\* FastFourierTransform(input_grid, q=2) (angular_spectrum.py line 43)
FftQ == 2

Axes == {1, 2}

Max(a, b) == IF a >= b THEN a ELSE b

RECURSIVE GCD(_, _)
GCD(a, b) == IF b = 0 THEN a ELSE GCD(b, a % b)

RECURSIVE ISqrtFrom(_, _)
ISqrtFrom(x, r) == IF (r + 1) * (r + 1) > x THEN r ELSE ISqrtFrom(x, r + 1)

\* the square root of a non-negative real, rounded down to the unit
ISqrt(x) == ISqrtFrom(x, 0)

(***************************************************************************)
(* Complex values in exponent form.                                        *)
(* A term key [re, im, t, tc] stands for exp(re + i*im) * T^t * conj(T)^tc *)
(* where T is the value, not computed by the model, that the near-field    *)
(* path stores at the same sample (the transform of the impulse response). *)
(* A value [num, den] is (sum over keys k of num[k] * term(k)) / den;      *)
(* den = 0 marks nan.                                                      *)
(***************************************************************************)
Key(l, p, t, tc) == [re |-> l, im |-> p % TwoPi, t |-> t, tc |-> tc]

KeyMul(a, b) == Key(a.re + b.re, a.im + b.im, a.t + b.t, a.tc + b.tc)

KeyConj(a) == Key(a.re, 0 - a.im, a.tc, a.t)

BagCount(b, k) == IF k \in DOMAIN b THEN b[k] ELSE 0

RECURSIVE BagGCD(_, _, _)
BagGCD(b, S, g) ==
  IF S = {} THEN g
  ELSE LET k == CHOOSE x \in S : TRUE
       IN BagGCD(b, S \ {k}, GCD(b[k], g))

CNaN == [num |-> [k \in {} |-> 0], den |-> 0]

CZero == [num |-> [k \in {} |-> 0], den |-> 1]

CMono(k) == [num |-> [x \in {k} |-> 1], den |-> 1]

COne == CMono(Key(0, 0, 0, 0))

IsNaN(z) == z.den = 0

\* lowest terms: the counts and the denominator share no factor
Normalize(z) ==
  IF z.den = 0 THEN CNaN
  ELSE IF DOMAIN z.num = {} THEN CZero
  ELSE LET g == BagGCD(z.num, DOMAIN z.num, z.den)
       IN [num |-> [k \in DOMAIN z.num |-> z.num[k] \div g], den |-> z.den \div g]

CAdd(a, b) ==
  IF a.den = 0 \/ b.den = 0 THEN CNaN
  ELSE Normalize([num |-> [k \in DOMAIN a.num \cup DOMAIN b.num |->
                            BagCount(a.num, k) * b.den + BagCount(b.num, k) * a.den],
                  den |-> a.den * b.den])

RECURSIVE SumPairs(_, _, _)
SumPairs(P, a, b) ==
  IF P = {} THEN 0
  ELSE LET p == CHOOSE x \in P : TRUE
       IN a[p[1]] * b[p[2]] + SumPairs(P \ {p}, a, b)

CMul(a, b) ==
  IF a.den = 0 \/ b.den = 0 THEN CNaN
  ELSE LET keys == {KeyMul(x, y) : x \in DOMAIN a.num, y \in DOMAIN b.num}
           pairs(k) == {p \in (DOMAIN a.num) \X (DOMAIN b.num) : KeyMul(p[1], p[2]) = k}
       IN Normalize([num |-> [k \in keys |-> SumPairs(pairs(k), a.num, b.num)],
                     den |-> a.den * b.den])

\* np.conj
CConj(z) ==
  [num |-> [k \in {KeyConj(x) : x \in DOMAIN z.num} |-> z.num[KeyConj(k)]],
   den |-> z.den]

CDivInt(z, n) == Normalize([num |-> z.num, den |-> z.den * n])

RECURSIVE CSumOver(_, _)
CSumOver(S, f) ==
  IF S = {} THEN CZero
  ELSE LET x == CHOOSE y \in S : TRUE
       IN CAdd(f[x], CSumOver(S \ {x}, f))

\* |z| = 1 for a value all of whose terms have log-magnitude <= 0:
\* a single term of log-magnitude 0 (a mean of unit phasors has magnitude 1
\* only when all the phases agree)
IsUnitMagnitude(z) ==
  /\ z.den = 1
  /\ \E k \in DOMAIN z.num : DOMAIN z.num = {k} /\ z.num[k] = 1 /\ k.re = 0 /\ k.t = 0 /\ k.tc = 0

\* |z| < 1 for a single exponential term
IsDecayingTerm(z) ==
  /\ z.den = 1
  /\ \E k \in DOMAIN z.num : DOMAIN z.num = {k} /\ z.num[k] = 1 /\ k.re < 0 /\ k.t = 0 /\ k.tc = 0

(***************************************************************************)
(* Grids.  A grid has per-axis sample counts and spacings, a regularity    *)
(* flag and a coordinate-system tag.  The Grid classes are not part of the *)
(* sources at hand; the helpers below follow the specification.            *)
(***************************************************************************)
Grid(dims, delta, is_regular, coords) ==
  [dims |-> dims, delta |-> delta, is_regular |-> is_regular, coords |-> coords]

NoGrid == Grid(<<0, 0>>, <<0, 0>>, FALSE, "unset")

\* make_pupil_grid(dims, diameter): dims samples per axis over the extent diameter
make_pupil_grid(dims, diameter) ==
  [dims |-> dims, diameter |-> diameter, is_regular |-> TRUE, coords |-> "cartesian"]

NoPupilGrid == [dims |-> <<0, 0>>, diameter |-> <<0, 0>>, is_regular |-> FALSE, coords |-> "unset"]

\* the frequency grid of a fast transform: q * dims samples per axis, of
\* spacing 2*pi / (q * dims * delta), with delta = dnum / dden, centred on 0
make_fft_grid(dims, dnum, dden, q) ==
  Grid([a \in Axes |-> q * dims[a]],
       [a \in Axes |-> (TwoPi * dden[a]) \div (q * dims[a] * dnum[a])],
       TRUE, "cartesian")

\* FastFourierTransform(input_grid, q)
FastFourierTransform(input_grid, q) ==
  [input_grid |-> input_grid, q |-> q,
   output_grid |-> make_fft_grid(input_grid.dims, input_grid.delta, <<1, 1>>, q)]

\* FastFourierTransform(enlarged_input_grid), q = 1, on a pupil grid whose
\* spacing is diameter / dims
FastFourierTransformUp(pupil_grid) ==
  [input_grid |-> pupil_grid, q |-> 1,
   output_grid |-> make_fft_grid(pupil_grid.dims, pupil_grid.diameter, pupil_grid.dims, 1)]

NoFFT == [input_grid |-> NoGrid, q |-> 0, output_grid |-> NoGrid]

NoFFTUp == [input_grid |-> NoPupilGrid, q |-> 0, output_grid |-> NoGrid]

GridIndex(g) == {<<i, j>> : i \in 0..(g.dims[1] - 1), j \in 0..(g.dims[2] - 1)}

\* the coordinate of sample i on axis a of a grid centred on 0
GridCoord(g, a, i) == g.delta[a] * (i - (g.dims[a] \div 2))

\* the sub-sample points of a cell: oversampling points per axis, centred
\* on the sample, a fraction 1/oversampling of the spacing apart
SubCoord(g, a, i, j, oversampling) ==
  GridCoord(g, a, i) + ((g.delta[a] * (2 * j + 1 - oversampling)) \div (2 * oversampling))

SubIndex(oversampling) == {<<i, j>> : i \in 0..(oversampling - 1), j \in 0..(oversampling - 1)}

(***************************************************************************)
(* AngularSpectrumPropagator.__init__                                      *)
(***************************************************************************)
\* L_max = np.max(input_grid.dims * input_grid.delta)
L_max(input_grid) ==
  Max(input_grid.dims[1] * input_grid.delta[1], input_grid.dims[2] * input_grid.delta[2])

\* x < num / den for den > 0
LessThanQuotient(x, num, den) == x * den < num

\* np.any(input_grid.delta < wavelength * distance / L_max), with <= for <
UsesImpulseResponse_OrEqual(input_grid, wavelength, distance) ==
  \E a \in Axes : input_grid.delta[a] * L_max(input_grid) <= wavelength * distance

\* np.any(input_grid.delta < wavelength * distance / L_max)
UsesImpulseResponse(input_grid, wavelength, distance) ==
  \E a \in Axes : LessThanQuotient(input_grid.delta[a], wavelength * distance, L_max(input_grid))

\* k = 2 * np.pi / wavelength * refractive_index
Wavenumber(wavelength, refractive_index) == (TwoPi \div wavelength) * refractive_index

\* np.sqrt of a real argument: nan below zero
RealSqrt(x) ==
  IF x >= 0 THEN [re |-> ISqrt(x), im |-> 0, nan |-> FALSE]
  ELSE [re |-> 0, im |-> 0, nan |-> TRUE]

\* np.sqrt(x + 0j): the principal complex root
ComplexSqrt(x) ==
  IF x >= 0 THEN [re |-> ISqrt(x), im |-> 0, nan |-> FALSE]
  ELSE [re |-> 0, im |-> ISqrt(0 - x), nan |-> FALSE]

\* np.exp(1j * z * distance)
ExpI(z, distance) ==
  IF z.nan THEN CNaN ELSE CMono(Key((0 - z.im) * distance, z.re * distance, 0, 0))

\* transfer_function_generator at the point (x, y) of the frequency grid:
\* k_squared = r**2; k_z = np.sqrt(k**2 - k_squared + 0j); np.exp(1j * k_z * distance)
transfer_function_generator(k, distance, x, y) ==
  LET k_squared == x * x + y * y
      k_z == ComplexSqrt(k * k - k_squared)
  IN ExpI(k_z, distance)

\* evaluate_supersampled(transfer_function_generator, grid, num_oversampling):
\* per sample, the mean of the generator over the cell's sub-sample points
evaluate_supersampled_transfer(grid, num_oversampling, k, distance) ==
  [p \in GridIndex(grid) |->
     CDivInt(CSumOver(SubIndex(num_oversampling),
                      [s \in SubIndex(num_oversampling) |->
                         transfer_function_generator(k, distance,
                            SubCoord(grid, 1, p[1], s[1], num_oversampling),
                            SubCoord(grid, 2, p[2], s[2], num_oversampling))]),
             num_oversampling * num_oversampling)]

\* enlarged_input_grid = make_pupil_grid(2 * dims, 2 * delta * (dims - 1))
enlarged_input_grid(input_grid) ==
  make_pupil_grid([a \in Axes |-> 2 * input_grid.dims[a]],
                  [a \in Axes |-> 2 * input_grid.delta[a] * (input_grid.dims[a] - 1)])

\* self.fft_up_scale.forward(impulse_response): the value at each sample is
\* kept as the symbol T of that sample, the transform of the supersampled
\* impulse response not being evaluated numerically
impulse_response_transfer(fft_up_scale) ==
  [p \in GridIndex(fft_up_scale.output_grid) |-> CMono(Key(0, 0, 1, 0))]

NewPropagator ==
  [status |-> "new", attrs |-> {}, path |-> "none",
   input_grid |-> NoGrid, distance |-> 0, num_oversampling |-> 0,
   wavelength |-> 0, refractive_index |-> 0,
   fft |-> NoFFT, output_grid |-> NoGrid, fft_up_scale |-> NoFFTUp,
   transfer_function |-> 0]

\* the instance after __init__ returns, and the array it allocates
Constructed(input_grid, distance, num_oversampling, wavelength, refractive_index) ==
  LET fft == FastFourierTransform(input_grid, FftQ)
      k == Wavenumber(wavelength, refractive_index)
      base == [NewPropagator EXCEPT
                 !.input_grid = input_grid, !.distance = distance,
                 !.num_oversampling = num_oversampling, !.wavelength = wavelength,
                 !.refractive_index = refractive_index]
  IN IF UsesImpulseResponse(input_grid, wavelength, distance)
     THEN LET up == FastFourierTransformUp(enlarged_input_grid(input_grid))
          IN [self |-> [base EXCEPT !.status = "built", !.path = "near",
                           !.attrs = {"fft", "output_grid", "fft_up_scale", "transfer_function"},
                           !.fft = fft, !.output_grid = input_grid,
                           !.fft_up_scale = up, !.transfer_function = 1],
              array |-> [grid |-> up.output_grid, data |-> impulse_response_transfer(up)]]
     ELSE [self |-> [base EXCEPT !.status = "built", !.path = "far",
                       !.attrs = {"fft", "output_grid", "transfer_function"},
                       !.fft = fft, !.output_grid = input_grid,
                       !.transfer_function = 1],
           array |-> [grid |-> fft.output_grid,
                      data |-> evaluate_supersampled_transfer(fft.output_grid,
                                  num_oversampling, k, distance)]]

\* the check of lines 40-41 with the Cartesian test left out
IsValidGrid_RegularOnly(input_grid) == input_grid.is_regular

\* the check of lines 40-41
IsValidGrid(input_grid) == input_grid.is_regular /\ input_grid.coords = "cartesian"

Construct(input_grid, distance, num_oversampling, wavelength, refractive_index) ==
  /\ propagator.status = "new"
  /\ IF ~IsValidGrid(input_grid)
     THEN /\ raised' = "ValueError"
          /\ propagator' = [propagator EXCEPT !.status = "raised", !.input_grid = input_grid,
                              !.distance = distance, !.num_oversampling = num_oversampling,
                              !.wavelength = wavelength, !.refractive_index = refractive_index]
          /\ UNCHANGED arrays
     ELSE LET c == Constructed(input_grid, distance, num_oversampling, wavelength, refractive_index)
          IN /\ propagator' = c.self
             /\ arrays' = Append(arrays, c.array)
             /\ UNCHANGED raised
  /\ UNCHANGED <<wavefronts, calls, nft_vars, kron_vars, pol_vars, mb_vars>>

(***************************************************************************)
(* Fields and wavefronts.  arrays is the heap of field arrays, an array    *)
(* being named by its index; a wavefront holds the index of its            *)
(* electric_field.  FastFourierTransform.forward / backward are not part   *)
(* of the sources at hand.  A field on the input grid is kept by its       *)
(* coefficients on the samples of fft.output_grid, which determine it      *)
(* (the transform's round-trip contract), so that forward and backward     *)
(* return a new array that holds these coefficients bound to the other     *)
(* grid.                                                                   *)
(***************************************************************************)
Field(data, grid) == [grid |-> grid, data |-> data]

Wavefront(electric_field, wavelength, input_stokes_vector) ==
  [electric_field |-> electric_field, wavelength |-> wavelength,
   input_stokes_vector |-> input_stokes_vector]

\* self.fft.forward(field): a new Field on the transform's output grid
fft_forward(fft, field) == Field(field.data, fft.output_grid)

\* self.fft.backward(field): a new Field on the transform's input grid
fft_backward(fft, field) == Field(field.data, fft.input_grid)

\* dst *= src, elementwise and in place
InPlaceMul(arrs, dst, src) ==
  [arrs EXCEPT ![dst] = Field([p \in DOMAIN arrs[dst].data |-> CMul(arrs[dst].data[p], src[p])],
                              arrs[dst].grid)]

\* np.conj(a): a new array
np_conj(data) == [p \in DOMAIN data |-> CConj(data[p])]

\* forward with the product taken in place on the caller's array
forward_OnInputArray(arrs, self, wavefront) ==
  LET a2 == InPlaceMul(arrs, wavefront.electric_field, arrs[self.transfer_function].data)
      a3 == Append(a2, fft_backward(self.fft, a2[wavefront.electric_field]))
  IN [arrays |-> a3,
      wavefront |-> Wavefront(Len(a3), wavefront.wavelength, wavefront.input_stokes_vector)]

\* AngularSpectrumPropagator.forward (lines 84-86): the heap after the call
\* and the wavefront returned
AngularSpectrumPropagator_forward(arrs, self, wavefront) ==
  LET ft == Len(arrs) + 1
      a1 == Append(arrs, fft_forward(self.fft, arrs[wavefront.electric_field]))
      a2 == InPlaceMul(a1, ft, a1[self.transfer_function].data)
      a3 == Append(a2, fft_backward(self.fft, a2[ft]))
  IN [arrays |-> a3,
      wavefront |-> Wavefront(Len(a3), wavefront.wavelength, wavefront.input_stokes_vector)]

\* backward with the conjugate written back into the stored transfer function
backward_ConjInPlace(arrs, self, wavefront) ==
  LET ft == Len(arrs) + 1
      tf == self.transfer_function
      a0 == [arrs EXCEPT ![tf] = Field(np_conj(arrs[tf].data), arrs[tf].grid)]
      a1 == Append(a0, fft_forward(self.fft, a0[wavefront.electric_field]))
      a2 == InPlaceMul(a1, ft, a1[tf].data)
      a3 == Append(a2, fft_backward(self.fft, a2[ft]))
  IN [arrays |-> a3,
      wavefront |-> Wavefront(Len(a3), wavefront.wavelength, wavefront.input_stokes_vector)]

\* backward with the transfer function itself for its conjugate
backward_NoConj(arrs, self, wavefront) ==
  AngularSpectrumPropagator_forward(arrs, self, wavefront)

\* AngularSpectrumPropagator.backward (lines 101-103)
AngularSpectrumPropagator_backward(arrs, self, wavefront) ==
  LET ft == Len(arrs) + 1
      a1 == Append(arrs, fft_forward(self.fft, arrs[wavefront.electric_field]))
      a2 == InPlaceMul(a1, ft, np_conj(a1[self.transfer_function].data))
      a3 == Append(a2, fft_backward(self.fft, a2[ft]))
  IN [arrays |-> a3,
      wavefront |-> Wavefront(Len(a3), wavefront.wavelength, wavefront.input_stokes_vector)]

\* the coefficients of the fields the callers propagate: a point source
\* (every plane-wave component present) and an on-axis plane wave
FieldKinds == {"point", "plane"}

FieldData(kind, grid) ==
  [p \in GridIndex(grid) |->
     IF kind = "point" \/ (GridCoord(grid, 1, p[1]) = 0 /\ GridCoord(grid, 2, p[2]) = 0)
     THEN COne ELSE CZero]

StokesVectors == {"none", "I"}

\* a caller builds a wavefront on the propagator's input grid
MakeWavefront(kind, wavelength, input_stokes_vector) ==
  /\ propagator.status = "built"
  /\ wavefronts = <<>>
  /\ arrays' = Append(arrays, Field(FieldData(kind, propagator.fft.output_grid),
                                    propagator.fft.input_grid))
  /\ wavefronts' = <<Wavefront(Len(arrays) + 1, wavelength, input_stokes_vector)>>
  /\ UNCHANGED <<propagator, calls, raised, nft_vars, kron_vars, pol_vars, mb_vars>>

Forward(i) ==
  /\ propagator.status = "built"
  /\ Len(calls) < MaxCalls
  /\ LET r == AngularSpectrumPropagator_forward(arrays, propagator, wavefronts[i])
     IN /\ arrays' = r.arrays
        /\ wavefronts' = Append(wavefronts, r.wavefront)
        /\ calls' = Append(calls, [op |-> "forward", input |-> i, output |-> Len(wavefronts) + 1])
  /\ UNCHANGED <<propagator, raised, nft_vars, kron_vars, pol_vars, mb_vars>>

Backward(i) ==
  /\ propagator.status = "built"
  /\ Len(calls) < MaxCalls
  /\ LET r == AngularSpectrumPropagator_backward(arrays, propagator, wavefronts[i])
     IN /\ arrays' = r.arrays
        /\ wavefronts' = Append(wavefronts, r.wavefront)
        /\ calls' = Append(calls, [op |-> "backward", input |-> i, output |-> Len(wavefronts) + 1])
  /\ UNCHANGED <<propagator, raised, nft_vars, kron_vars, pol_vars, mb_vars>>

Grids ==
  {Grid(<<nx, ny>>, <<dx, dy>>, r, c) :
     nx \in 2..MaxDim, ny \in 2..MaxDim, dx \in 1..MaxDelta, dy \in 1..MaxDelta,
     r \in BOOLEAN, c \in {"cartesian", "polar"}}

RefractiveIndices == {1}

InitPropagator ==
  /\ propagator = NewPropagator
  /\ arrays = <<>>
  /\ wavefronts = <<>>
  /\ calls = <<>>
  /\ raised = "none"

NextPropagator ==
  \/ \E g \in Grids, d \in 0..MaxDistance, o \in 1..MaxOversampling,
        w \in 1..MaxWavelength, n \in RefractiveIndices : Construct(g, d, o, w, n)
  \/ \E kind \in FieldKinds, w \in 1..MaxWavelength, s \in StokesVectors : MakeWavefront(kind, w, s)
  \/ \E i \in DOMAIN wavefronts : Forward(i)
  \/ \E i \in DOMAIN wavefronts : Backward(i)


(***************************************************************************)
(* Claims about AngularSpectrumPropagator, checked under SpecASP.          *)
(***************************************************************************)
TransferData == arrays[propagator.transfer_function].data

FieldOf(i) == arrays[wavefronts[i].electric_field].data

\* the sum of the counts of a value's terms
RECURSIVE BagTotal(_, _)
BagTotal(b, S) ==
  IF S = {} THEN 0
  ELSE LET k == CHOOSE x \in S : TRUE IN b[k] + BagTotal(b, S \ {k})

\* |z| < 1 for a mean of terms none of which grows: the mean of terms of
\* magnitude at most 1 has magnitude 1 only if it is one term of magnitude 1
MagnitudeBelowOne(z) ==
  /\ z.den > 0
  /\ \A k \in DOMAIN z.num : k.re <= 0 /\ k.t = 0 /\ k.tc = 0
  /\ BagTotal(z.num, DOMAIN z.num) <= z.den
  /\ ~IsUnitMagnitude(z)

\* C1: constructing on a grid that is not regular or not Cartesian always
\* fails with ValueError, before any transform, output grid or transfer
\* function is set on the instance (and before any array is allocated); on
\* a regular Cartesian grid the error is never raised.
C1_InvalidGridRejected ==
  propagator.status # "new" =>
    IF ~propagator.input_grid.is_regular \/ propagator.input_grid.coords # "cartesian"
    THEN /\ propagator.status = "raised"
         /\ raised = "ValueError"
         /\ propagator.attrs = {}
         /\ propagator.fft = NoFFT
         /\ propagator.output_grid = NoGrid
         /\ propagator.transfer_function = 0
         /\ arrays = <<>>
    ELSE /\ propagator.status = "built"
         /\ raised = "none"

C1_Witness ==
  /\ propagator.status = "raised"
  /\ propagator.input_grid.is_regular
  /\ propagator.input_grid.coords = "polar"

\* C2: construction takes the near-field path exactly when some axis has
\* delta * L_max < wavelength * distance (delta strictly below the
\* threshold wavelength * distance / L_max), the far-field path otherwise,
\* equality included; exactly one path is taken and only the near-field
\* path creates fft_up_scale.
C2_RegimeSelection ==
  propagator.status = "built" =>
    LET g == propagator.input_grid
        lmax == IF g.dims[1] * g.delta[1] >= g.dims[2] * g.delta[2]
                THEN g.dims[1] * g.delta[1] ELSE g.dims[2] * g.delta[2]
        below == \E a \in Axes : g.delta[a] * lmax < propagator.wavelength * propagator.distance
    IN /\ propagator.path \in {"near", "far"}
       /\ (propagator.path = "near") <=> below
       /\ ("fft_up_scale" \in propagator.attrs) <=> (propagator.path = "near")
       /\ (propagator.fft_up_scale # NoFFTUp) <=> (propagator.path = "near")

\* the spacing equals the threshold on an axis and is below it on none
C2_Witness ==
  /\ propagator.status = "built"
  /\ propagator.path = "far"
  /\ propagator.distance > 0
  /\ \E a \in Axes : propagator.input_grid.delta[a] * L_max(propagator.input_grid)
                       = propagator.wavelength * propagator.distance

\* C3: after construction, forward and backward calls in any order leave
\* the instance and its stored transfer function as construction left
\* them; forward multiplies the transform of its input by the stored
\* transfer function and backward by the conjugate of that same function.
C3_PropagatorImmutable ==
  /\ [][propagator.status = "built" =>
          /\ propagator' = propagator
          /\ arrays'[propagator.transfer_function] = arrays[propagator.transfer_function]]_vars
  /\ [](\A c \in DOMAIN calls : \A p \in DOMAIN TransferData :
          FieldOf(calls[c].output)[p] =
            CMul(FieldOf(calls[c].input)[p],
                 IF calls[c].op = "forward" THEN TransferData[p] ELSE CConj(TransferData[p])))

C3_Witness ==
  /\ Len(calls) >= 2
  /\ calls[1].op = "backward"
  /\ calls[2].op = "forward"
  /\ propagator.path = "far"
  /\ propagator.distance > 0

\* C4: forward and backward leave every existing wavefront (its field
\* array, wavelength and polarization tag) unchanged and return a new
\* wavefront, with an array of its own, whose wavelength and polarization
\* tag are those of the input.
C4_InputUnchanged ==
  /\ [][\A i \in DOMAIN wavefronts :
          /\ wavefronts'[i] = wavefronts[i]
          /\ arrays'[wavefronts[i].electric_field] = arrays[wavefronts[i].electric_field]]_vars
  /\ [](\A c \in DOMAIN calls :
          /\ calls[c].output # calls[c].input
          /\ wavefronts[calls[c].output].electric_field # wavefronts[calls[c].input].electric_field
          /\ wavefronts[calls[c].output].wavelength = wavefronts[calls[c].input].wavelength
          /\ wavefronts[calls[c].output].input_stokes_vector
               = wavefronts[calls[c].input].input_stokes_vector)

C4_Witness ==
  /\ Len(calls) >= 2
  /\ calls[1].op = "forward"
  /\ calls[2].op = "backward"
  /\ wavefronts[1].wavelength # propagator.wavelength
  /\ wavefronts[1].input_stokes_vector = "I"
  /\ \E p \in DOMAIN TransferData : TransferData[p] # COne /\ FieldOf(1)[p] # CZero

\* a forward call and a backward call on its result
RoundTrips ==
  {<<a, b>> \in (DOMAIN calls) \X (DOMAIN calls) :
     /\ calls[a].op = "forward"
     /\ calls[b].op = "backward"
     /\ calls[b].input = calls[a].output}

\* a value with every factor T * conj(T) = |T|^2 of the near-field symbol
\* taken as 1
UnitT(z) ==
  IF z.den = 0 THEN z
  ELSE LET strip(k) == IF k.t = k.tc THEN Key(k.re, k.im, 0, 0) ELSE k
           keys == {strip(k) : k \in DOMAIN z.num}
       IN Normalize([num |-> [s \in keys |->
                                BagTotal(z.num, {k \in DOMAIN z.num : strip(k) = s})],
                     den |-> z.den])

KSquaredAt(grid, p) ==
  GridCoord(grid, 1, p[1]) * GridCoord(grid, 1, p[1])
    + GridCoord(grid, 2, p[2]) * GridCoord(grid, 2, p[2])

MaxNaiveCalls == 3

NaiveGrids == {<<0>>, <<0, 1>>, <<-1, 0, 2>>}

NoMatrix == <<>>

\* NaiveFourierTransform.__init__ (lines 5-7)
NaiveFourierTransform(input_grid, output_grid) ==
  [status |-> "built", input_grid |-> input_grid, output_grid |-> output_grid,
   has_matrix |-> FALSE, matrix |-> NoMatrix]

NewNaive ==
  [status |-> "new", input_grid |-> <<>>, output_grid |-> <<>>,
   has_matrix |-> FALSE, matrix |-> NoMatrix]

\* the dense matrix of the direct discrete Fourier sum:
\* T[j][i] = exp(-1j * x_out[j] * x_in[i])
DenseMatrix(input_grid, output_grid) ==
  [j \in DOMAIN output_grid |->
     [i \in DOMAIN input_grid |-> CMono(Key(0, 0 - output_grid[j] * input_grid[i], 0, 0))]]

\* FourierTransform.get_transformation_matrix is not part of the sources at
\* hand; after the specification the matrix is computed once and cached.
\* Gives the instance after the call, the matrix, and the number of
\* matrices built by the call.
get_transformation_matrix(self) ==
  IF self.has_matrix
  THEN [self |-> self, T |-> self.matrix, built |-> 0]
  ELSE LET T == DenseMatrix(self.input_grid, self.output_grid)
       IN [self |-> [self EXCEPT !.has_matrix = TRUE, !.matrix = T], T |-> T, built |-> 1]

\* T.dot(field.ravel())
MatDot(T, field) ==
  [j \in DOMAIN T |->
     CSumOver(DOMAIN field, [i \in DOMAIN field |-> CMul(T[j][i], field[i])])]

\* forward with the matrix built in the call itself
forward_BuildsMatrix(self, field) ==
  LET T == DenseMatrix(self.input_grid, self.output_grid)
  IN [self |-> self, result |-> Field(MatDot(T, field), self.output_grid), built |-> 1]

\* NaiveFourierTransform.forward (lines 9-14)
NaiveFourierTransform_forward(self, field) ==
  LET g == get_transformation_matrix(self)
      res == MatDot(g.T, field)
  IN [self |-> g.self, result |-> Field(res, self.output_grid), built |-> g.built]

NaiveConstruct(input_grid, output_grid) ==
  /\ nft.status = "new"
  /\ nft' = NaiveFourierTransform(input_grid, output_grid)
  /\ UNCHANGED <<matrix_builds, nft_calls, nft_result, asp_vars, kron_vars, pol_vars, mb_vars>>

NaiveForward(field) ==
  /\ nft.status = "built"
  /\ nft_calls < MaxNaiveCalls
  /\ LET r == NaiveFourierTransform_forward(nft, field)
     IN /\ nft' = r.self
        /\ nft_result' = r.result
        /\ matrix_builds' = matrix_builds + r.built
  /\ nft_calls' = nft_calls + 1
  /\ UNCHANGED <<asp_vars, kron_vars, pol_vars, mb_vars>>

NoField == Field(<<>>, <<>>)

InitNaive ==
  /\ nft = NewNaive
  /\ matrix_builds = 0
  /\ nft_calls = 0
  /\ nft_result = NoField

NextNaive ==
  \/ \E i \in NaiveGrids, o \in NaiveGrids : NaiveConstruct(i, o)
  \/ \E field \in [DOMAIN nft.input_grid -> {CZero, COne}] : NaiveForward(field)

(***************************************************************************)
(* field_kron (polarization.py lines 5-53).  An operand is a bare 2-d      *)
(* array (no grid attribute) or a tensor Field: a 2-d tensor per sample of *)
(* its grid, the sample axis last.  Indices count from 0.                  *)
(***************************************************************************)
KronGrid(id, size) == [id |-> id, size |-> size]

NoKronGrid == KronGrid(0, 0)

KronGrids == {KronGrid(1, 1), KronGrid(2, 2), KronGrid(3, 2)}

KronShapes == {<<1, 1>>, <<2, 2>>, <<1, 2>>}

TensorIndex(shape) == {<<i, j>> : i \in 0..(shape[1] - 1), j \in 0..(shape[2] - 1)}

FieldIndex(shape, size) ==
  {<<i, j, n>> : i \in 0..(shape[1] - 1), j \in 0..(shape[2] - 1), n \in 0..(size - 1)}

\* a bare array, with entries told apart by their place
BareArray(shape, v) ==
  [is_field |-> FALSE, grid |-> NoKronGrid, shape |-> shape,
   data |-> [x \in TensorIndex(shape) |-> v + x[1] + 2 * x[2]]]

\* a tensor Field on a grid
TensorField(shape, grid) ==
  [is_field |-> TRUE, grid |-> grid, shape |-> shape,
   data |-> [x \in FieldIndex(shape, grid.size) |-> 1 + x[1] + 2 * x[2] + 4 * x[3]]]

KronOperands ==
  {BareArray(sh, v) : sh \in KronShapes, v \in {1, 2}}
    \cup {TensorField(sh, g) : sh \in {<<1, 1>>, <<2, 2>>}, g \in KronGrids}

\* a[..., np.newaxis]: a sample axis of length 1
NewAxis(a) == [x \in FieldIndex(a.shape, 1) |-> a.data[<<x[1], x[2]>>]]

\* np.kron(a, b) of two 2-d arrays
np_kron(a, b) ==
  LET shape == <<a.shape[1] * b.shape[1], a.shape[2] * b.shape[2]>>
  IN [kind |-> "ndarray", grid |-> NoKronGrid, shape |-> shape,
      data |-> [x \in TensorIndex(shape) |->
                  a.data[<<x[1] \div b.shape[1], x[2] \div b.shape[2]>>]
                    * b.data[<<x[1] % b.shape[1], x[2] % b.shape[2]>>]]]

KronValueError == [kind |-> "ValueError", grid |-> NoKronGrid, shape |-> <<0, 0>>, data |-> <<>>]

\* line 29 with < for !=
SizesDiffer_Less(a, b) == a.grid.size < b.grid.size

\* a.grid.size != b.grid.size (line 29)
SizesDiffer(a, b) == a.grid.size # b.grid.size

\* field_kron(a, b): what it returns, or the error it raises
field_kron(a, b) ==
  LET is_a_field == a.is_field
      is_b_field == b.is_field
      is_output_field == is_a_field \/ is_b_field
  IN IF ~is_output_field THEN np_kron(a, b)
     ELSE IF is_a_field /\ is_b_field /\ SizesDiffer(a, b) THEN KronValueError
     ELSE LET grid == IF is_a_field THEN a.grid ELSE b.grid
              aa == IF is_a_field THEN a.data ELSE NewAxis(a)
              bb == IF is_b_field THEN b.data ELSE NewAxis(b)
              na == IF is_a_field THEN a.grid.size ELSE 1
              nb == IF is_b_field THEN b.grid.size ELSE 1
              n == Max(na, nb)
              output_tensor_shape == <<a.shape[1] * b.shape[1], a.shape[2] * b.shape[2]>>
          IN \* the product broadcasts the sample axes; reshape needs grid.size samples
             IF (na # nb /\ na # 1 /\ nb # 1) \/ n # grid.size THEN KronValueError
             ELSE [kind |-> "Field", grid |-> grid, shape |-> output_tensor_shape,
                   data |-> [x \in FieldIndex(output_tensor_shape, grid.size) |->
                               aa[<<x[1] \div b.shape[1], x[2] \div b.shape[2],
                                    IF na = 1 THEN 0 ELSE x[3]>>]
                                 * bb[<<x[1] % b.shape[1], x[2] % b.shape[2],
                                        IF nb = 1 THEN 0 ELSE x[3]>>]]]

NoKronCall == [state |-> "none", a |-> BareArray(<<1, 1>>, 1), b |-> BareArray(<<1, 1>>, 1),
               result |-> KronValueError]

FieldKron(a, b) ==
  /\ kron_call.state = "none"
  /\ LET r == field_kron(a, b)
     IN kron_call' = [state |-> IF r.kind = "ValueError" THEN "raised" ELSE "returned",
                      a |-> a, b |-> b, result |-> r]
  /\ UNCHANGED <<asp_vars, nft_vars, pol_vars, mb_vars>>

InitKron == kron_call = NoKronCall

NextKron == \E a \in KronOperands, b \in KronOperands : FieldKron(a, b)

(***************************************************************************)
(* Jones-matrix optics (polarization.py lines 76-139 and 221-276).         *)
(* Matrix entries and field components are complex rationals               *)
(* (re + i*im) / den in lowest terms.  An angle is given by its cosine and *)
(* sine, for the angles at which both are rational.  An electric field is  *)
(* a Jones vector <<Ex, Ey>>, a Jones matrix <<<<j11, j12>>, <<j21, j22>>>>.*)
(***************************************************************************)
MaxElements == 3
MaxBeams == 2

Abs(x) == IF x < 0 THEN 0 - x ELSE x

Q(re, im, den) ==
  LET g == GCD(GCD(Abs(re), Abs(im)), den)
  IN [re |-> re \div g, im |-> im \div g, den |-> den \div g]

QZero == Q(0, 0, 1)

QOne == Q(1, 0, 1)

QI == Q(0, 1, 1)

QAdd(x, y) ==
  LET g == GCD(x.den, y.den)
      xs == y.den \div g
      ys == x.den \div g
  IN Q(x.re * xs + y.re * ys, x.im * xs + y.im * ys, x.den * xs)

QMul(x, y) == Q(x.re * y.re - x.im * y.im, x.re * y.im + x.im * y.re, x.den * y.den)

QNeg(x) == Q(0 - x.re, 0 - x.im, x.den)

QConj(x) == Q(x.re, 0 - x.im, x.den)

\* field_dot(a, b) of two 2x2 matrices
field_dot(a, b) ==
  [i \in 1..2 |-> [j \in 1..2 |-> QAdd(QMul(a[i][1], b[1][j]), QMul(a[i][2], b[2][j]))]]

\* field_dot(a, v) of a 2x2 matrix and a Jones vector
field_dot_vector(a, v) ==
  [i \in 1..2 |-> QAdd(QMul(a[i][1], v[1]), QMul(a[i][2], v[2]))]

\* field_conjugate_transpose(a)
field_conjugate_transpose(a) == [i \in 1..2 |-> [j \in 1..2 |-> QConj(a[j][i])]]

Angle(c, s, den) == [cos |-> Q(c, 0, den), sin |-> Q(s, 0, den)]

NoAngle == Angle(0, 0, 1)

\* the angles 0, atan(3/4), atan(4/3) and pi/2
PolarizationAngles == {Angle(1, 0, 1), Angle(4, 3, 5), Angle(3, 4, 5), Angle(0, 1, 1)}

np_cos(t) == t.cos

np_sin(t) == t.sin

\* JonesMatrixOpticalElement.__init__ (line 87)
JonesMatrixOpticalElement(jones_matrix) ==
  [cls |-> "JonesMatrixOpticalElement", jones_matrix |-> jones_matrix,
   polarization_angle |-> NoAngle, left |-> 0, right |-> 0]

\* the polarization_angle setter (lines 239-244):
\* jones_matrix = [[c**2, -c * s], [-c * s, s**2]]
LinearPolarizerMatrix(polarization_angle) ==
  LET c == np_cos(polarization_angle)
      s == np_sin(polarization_angle)
  IN << <<QMul(c, c), QMul(QNeg(c), s)>>, <<QMul(QNeg(c), s), QMul(s, s)>> >>

\* LinearPolarizer.__init__ (line 230)
LinearPolarizer(polarization_angle) ==
  [cls |-> "LinearPolarizer", jones_matrix |-> LinearPolarizerMatrix(polarization_angle),
   polarization_angle |-> polarization_angle, left |-> 0, right |-> 0]

\* JonesMatrixOpticalElement.forward (lines 102-104) and
\* LinearPolarizer.forward (lines 259-261): the field of the wavefront returned
Element_forward(self, electric_field) == field_dot_vector(self.jones_matrix, electric_field)

\* JonesMatrixOpticalElement.backward (lines 119-121); LinearPolarizer.backward
\* is its forward (line 276)
Element_backward(self, electric_field) ==
  IF self.cls = "LinearPolarizer" THEN Element_forward(self, electric_field)
  ELSE field_dot_vector(field_conjugate_transpose(self.jones_matrix), electric_field)

\* __mul__ with the factors in the other order
Element_mul_Swapped(self, m) ==
  JonesMatrixOpticalElement(field_dot(m.jones_matrix, self.jones_matrix))

\* JonesMatrixOpticalElement.__mul__ (lines 136-137), m a Jones-matrix element
Element_mul(self, m) ==
  JonesMatrixOpticalElement(field_dot(self.jones_matrix, m.jones_matrix))

\* a rotation by a quarter turn, a quarter-wave retardation of Ey, a shear
JonesMatrices ==
  { << <<QZero, QNeg(QOne)>>, <<QOne, QZero>> >>,
    << <<QOne, QZero>>, <<QZero, QI>> >>,
    << <<QOne, QOne>>, <<QZero, QOne>> >> }

BaseElements ==
  {JonesMatrixOpticalElement(m) : m \in JonesMatrices}
    \cup {LinearPolarizer(t) : t \in PolarizationAngles}

\* light linearly polarized at the angle t, and at the perpendicular angle
LinearState(t) == <<np_cos(t), np_sin(t)>>

PerpendicularState(t) == <<QNeg(np_sin(t)), np_cos(t)>>

JonesVectors ==
  {LinearState(t) : t \in PolarizationAngles}
    \cup {PerpendicularState(t) : t \in PolarizationAngles}
    \cup {<<QOne, QI>>}

Beam(electric_field, op, element, source) ==
  [electric_field |-> electric_field, op |-> op, element |-> element, source |-> source]

\* a caller builds a wavefront with a Jones vector for its field
NewBeam(v) ==
  /\ beams = <<>>
  /\ beams' = <<Beam(v, "new", 0, 0)>>
  /\ UNCHANGED <<elements, asp_vars, nft_vars, kron_vars, mb_vars>>

\* a caller constructs an element
NewElement(e) ==
  /\ Len(elements) < MaxElements
  /\ elements' = Append(elements, e)
  /\ UNCHANGED <<beams, asp_vars, nft_vars, kron_vars, mb_vars>>

\* elements[a] * elements[b]
Multiply(a, b) ==
  /\ Len(elements) < MaxElements
  /\ elements' = Append(elements, [Element_mul(elements[a], elements[b])
                                     EXCEPT !.left = a, !.right = b])
  /\ UNCHANGED <<beams, asp_vars, nft_vars, kron_vars, mb_vars>>

\* elements[e].forward(beams[w]): wavefront.copy() with the new field
PolForward(e, w) ==
  /\ Len(beams) < MaxBeams
  /\ beams' = Append(beams, Beam(Element_forward(elements[e], beams[w].electric_field),
                               "forward", e, w))
  /\ UNCHANGED <<elements, asp_vars, nft_vars, kron_vars, mb_vars>>

PolBackward(e, w) ==
  /\ Len(beams) < MaxBeams
  /\ beams' = Append(beams, Beam(Element_backward(elements[e], beams[w].electric_field),
                               "backward", e, w))
  /\ UNCHANGED <<elements, asp_vars, nft_vars, kron_vars, mb_vars>>

InitPol ==
  /\ elements = <<>>
  /\ beams = <<>>

NextPol ==
  \/ \E e \in BaseElements : NewElement(e)
  \/ \E v \in JonesVectors : NewBeam(v)
  \/ \E a \in DOMAIN elements, b \in DOMAIN elements : Multiply(a, b)
  \/ \E e \in DOMAIN elements, w \in DOMAIN beams : PolForward(e, w)
  \/ \E e \in DOMAIN elements, w \in DOMAIN beams : PolBackward(e, w)

(***************************************************************************)
(* ModeBasis (mode_basis.py).  A mode is a sequence of N real samples, a   *)
(* basis a list of M modes.  Samples are exact rationals; the QR           *)
(* factorisation is carried out exactly, which is possible for one or two  *)
(* modes when the first column of the stacked matrix has a rational norm.  *)
(***************************************************************************)
MaxSamples == 3

ModeCounts == {1, 2}

SampleValues == {0, 1, 3, 4}

\* ModeBasis.transformation_matrix (line 6): np.stack(self, axis=0), the
\* modes as the rows of an M x N matrix
transformation_matrix(self) == [i \in 1..Len(self) |-> self[i]]

\* the shape of a matrix given by its rows
Shape(A) == <<Len(A), IF Len(A) = 0 THEN 0 ELSE Len(A[1])>>

IsPerfectSquare(x) == ISqrt(x) * ISqrt(x) = x

\* the factor q of np.linalg.qr(A) (reduced mode) for an M x N matrix,
\* M <= N, M <= 2: an M x K matrix, K = min(M, N), with orthonormal columns,
\* the first along the first column of A.  The sign of each column is
\* fixed by the library's Householder reflections; it is given by signs.
np_linalg_qr_q(A, signs) ==
  LET M == Shape(A)[1]
  IN IF M = 1
     THEN << <<Q(signs[1], 0, 1)>> >>
     ELSE LET c1 == A[1][1]
              c2 == A[2][1]
              n == ISqrt(c1 * c1 + c2 * c2)
              q1 == IF n = 0 THEN <<Q(signs[1], 0, 1), QZero>>
                    ELSE <<Q(signs[1] * c1, 0, n), Q(signs[1] * c2, 0, n)>>
              q2 == <<QMul(Q(0 - signs[2], 0, 1), q1[2]), QMul(Q(signs[2], 0, 1), q1[1])>>
          IN << <<q1[1], q2[1]>>, <<q1[2], q2[2]>> >>

\* ModeBasis.orthogonalized (lines 10-12): the columns q[:, i] of q, for i
\* in range(q.shape[1]), as a new ModeBasis
orthogonalized(self, signs) ==
  LET q == np_linalg_qr_q(transformation_matrix(self), signs)
  IN [i \in 1..Shape(q)[2] |-> [r \in 1..Shape(q)[1] |-> q[r][i]]]

\* the bases of M modes of N samples, M <= N
ModeBases ==
  UNION {[1..M -> [1..N -> SampleValues]] : M \in ModeCounts, N \in 1..MaxSamples}

\* a caller builds a basis of M <= N modes
MakeBasis(modes) ==
  /\ mode_basis = <<>>
  /\ Len(modes) <= Len(modes[1])
  /\ Len(modes) = 2 => IsPerfectSquare(modes[1][1] * modes[1][1] + modes[2][1] * modes[2][1])
  /\ mode_basis' = modes
  /\ UNCHANGED <<orthogonal_basis, asp_vars, nft_vars, kron_vars, pol_vars>>

\* a read of mode_basis.orthogonalized
Orthogonalize(signs) ==
  /\ mode_basis # <<>>
  /\ orthogonal_basis = <<>>
  /\ orthogonal_basis' = orthogonalized(mode_basis, signs)
  /\ UNCHANGED <<mode_basis, asp_vars, nft_vars, kron_vars, pol_vars>>

InitModes ==
  /\ mode_basis = <<>>
  /\ orthogonal_basis = <<>>

NextModes ==
  \/ \E modes \in ModeBases : MakeBasis(modes)
  \/ \E signs \in [1..2 -> {-1, 1}] : Orthogonalize(signs)

(***************************************************************************)
(* The specifications: one per component, the others at rest.              *)
(***************************************************************************)
Init == InitPropagator /\ InitNaive /\ InitKron /\ InitPol /\ InitModes

SpecASP == Init /\ [][NextPropagator]_vars

SpecNaive == Init /\ [][NextNaive]_vars

SpecKron == Init /\ [][NextKron]_vars

SpecPol == Init /\ [][NextPol]_vars

SpecModes == Init /\ [][NextModes]_vars

C7_KronGridBinding ==
  kron_call.state # "none" =>
    LET a == kron_call.a
        b == kron_call.b
        r == kron_call.result
    IN /\ (kron_call.state = "raised") <=> (r.kind = "ValueError")
       /\ (a.is_field /\ b.is_field /\ a.grid.size # b.grid.size) => r.kind = "ValueError"
       /\ (a.is_field /\ b.is_field /\ r.kind # "ValueError") =>
            /\ a.grid.size = b.grid.size
            /\ r.kind = "Field"
            /\ r.grid = a.grid
       /\ (a.is_field /\ ~b.is_field) => (r.kind = "Field" /\ r.grid = a.grid)
       /\ (~a.is_field /\ b.is_field) => (r.kind = "Field" /\ r.grid = b.grid)
       /\ (~a.is_field /\ ~b.is_field) => (r.kind = "ndarray" /\ r.grid = NoKronGrid)

\* two Fields, the first on the larger grid, were refused
C7_Witness ==
  /\ kron_call.state = "raised"
  /\ kron_call.a.is_field
  /\ kron_call.b.is_field
  /\ kron_call.a.grid.size > kron_call.b.grid.size
  /\ kron_call.a.shape = <<2, 2>>

(***************************************************************************)
(* Properties of the Jones-matrix elements, checked under SpecPol.         *)
(***************************************************************************)
ZeroVector == <<QZero, QZero>>

\* C8: a LinearPolarizer with polarization angle t returns the field
\* (cos t, sin t) as it is, and maps the perpendicular field
\* (-sin t, cos t) to zero.
C8_PolarizerTransmits ==
  \A w \in DOMAIN beams :
    (beams[w].op = "forward" /\ elements[beams[w].element].cls = "LinearPolarizer") =>
      LET t == elements[beams[w].element].polarization_angle
          E == beams[beams[w].source].electric_field
      IN /\ (E = LinearState(t)) => (beams[w].electric_field = LinearState(t))
         /\ (E = PerpendicularState(t)) => (beams[w].electric_field = ZeroVector)

\* C9: for elements A and B and a wavefront w, (A * B).forward(w) has the
\* field of A.forward(B.forward(w)) and (A * B).backward(w) the field of
\* B.backward(A.backward(w)).
C9_ProductComposes ==
  \A w \in DOMAIN beams :
    (beams[w].op \in {"forward", "backward"} /\ elements[beams[w].element].left # 0) =>
      LET A == elements[elements[beams[w].element].left]
          B == elements[elements[beams[w].element].right]
          E == beams[beams[w].source].electric_field
      IN beams[w].electric_field =
           IF beams[w].op = "forward"
           THEN Element_forward(A, Element_forward(B, E))
           ELSE Element_backward(B, Element_backward(A, E))

\* a wavefront went backward through the product of two elements that do not
\* commute, one of them with a complex matrix
C9_Witness ==
  \E w \in DOMAIN beams :
    /\ beams[w].op = "backward"
    /\ elements[beams[w].element].left # 0
    /\ LET A == elements[elements[beams[w].element].left]
           B == elements[elements[beams[w].element].right]
       IN /\ field_dot(A.jones_matrix, B.jones_matrix) # field_dot(B.jones_matrix, A.jones_matrix)
          /\ A.jones_matrix # field_conjugate_transpose(A.jones_matrix)
          /\ \E i \in 1..2 : beams[w].electric_field[i].im # 0

(***************************************************************************)
(* The enlarged grid of the near-field path, checked under SpecASP.        *)
(***************************************************************************)
\* the physical extent dims * delta of a grid on axis a (as in line 47)
GridExtent(g, a) == g.dims[a] * g.delta[a]

\* the extent of a pupil grid on axis a: make_pupil_grid spreads its dims
\* samples over diameter, so dims * delta = diameter
PupilExtent(pg, a) == pg.diameter[a]

\* C11: in the near-field path the enlarged grid has, on every axis, twice
\* the sample count of the input grid and twice its physical extent
\* dims * delta, so that its spacing (extent / dims) equals the input
\* grid's spacing.
C11_EnlargedGridDoubles ==
  (propagator.status = "built" /\ propagator.path = "near") =>
    LET g == propagator.input_grid
        e == propagator.fft_up_scale.input_grid
    IN \A a \in Axes :
         /\ e.dims[a] = 2 * g.dims[a]
         /\ PupilExtent(e, a) = 2 * GridExtent(g, a)
         /\ PupilExtent(e, a) = e.dims[a] * g.delta[a]

(***************************************************************************)
(* Properties of ModeBasis, checked under SpecModes.                       *)
(***************************************************************************)
\* the inner product of two real modes
ModeDot(u, v) == LET f[i \in 0..Len(u)] == IF i = 0 THEN QZero ELSE QAdd(f[i - 1], QMul(u[i], v[i]))
                 IN f[Len(u)]

\* the modes returned are mutually orthogonal (and of unit norm)
ReturnedOrthonormal ==
  \A i, j \in DOMAIN orthogonal_basis :
    ModeDot(orthogonal_basis[i], orthogonal_basis[j]) = IF i = j THEN QOne ELSE QZero

\* C12: for a basis of M modes of N samples each, M <= N, orthogonalized
\* returns a basis of M modes that again have N samples each, and the modes
\* returned are mutually orthogonal.  (The basis itself is not written:
\* Orthogonalize leaves mode_basis as it is.)
C12_OrthogonalizedKeepsShape ==
  orthogonal_basis # <<>> =>
    /\ Len(orthogonal_basis) = Len(mode_basis)
    /\ \A i \in DOMAIN orthogonal_basis : Len(orthogonal_basis[i]) = Len(mode_basis[1])
    /\ \A i, j \in DOMAIN orthogonal_basis :
         i # j => ModeDot(orthogonal_basis[i], orthogonal_basis[j]) = QZero

====
